---- MODULE Spec2Model ----
(***************************************************************************)
(* The assistants routes of impl/routes/assistants.py as a state machine:  *)
(* list_assistants, create_assistant, modify_assistant, delete_assistant   *)
(* and get_assistant over the "assistants" table of the store adapter      *)
(* (astradb).  Each caller handles one request at a time; the store is the *)
(* only state the callers share.                                           *)
(*                                                                         *)
(* Python values: every field of a request, a row or an AssistantObject is *)
(* None (the empty sequence) or Some(v) (the one-element sequence of its   *)
(* value v); lists are sequences; a metadata mapping is a set of           *)
(* <<key, value>> pairs; objects are records.                              *)
(***************************************************************************)
EXTENDS Integers, Sequences, FiniteSets, TLC

VARIABLES
    store,      \* the rows of table "assistants" that reads see, by id
    inflight,   \* rows written but not yet visible to reads (propagation lag)
    uuids,      \* how many ids uuid1() has generated so far
    pc,         \* per caller: the position inside modify_assistant, or "idle"
    local,      \* per caller: the locals of the modify_assistant in progress
    response,   \* what the last completed handler returned or raised
    lastWrite   \* history: per id, the last store write (operation and caller)

vars == <<store, inflight, uuids, pc, local, response, lastWrite>>

----------------------------------------------------------------------------
(* Bounds of the model *)

\* uuid1() is called at most this many times
MaxAssistants == 2

\* The callers that issue requests concurrently
Callers == {"c1", "c2"}

\* The values datetime.now() takes, in epoch seconds
Times == {1700000}

----------------------------------------------------------------------------
(* Python values *)

None == <<>>
Some(v) == <<v>>

\* Uuid changed to an id generator that gives two calls in a row the same id
UuidPerPair(n) == "asst-" \o ToString((n + 1) \div 2)

\* str(uuid1()): the n-th id generated
Uuid(n) == "asst-" \o ToString(n)

Ids == {Uuid(n) : n \in 1..MaxAssistants}

\* AssistantObjectToolsInner(type, function)
Tool(type, function) == [type |-> type, function |-> function]

retrieval_tool == Tool("retrieval", None)

code_interpreter_tool == Tool("code_interpreter", None)

function_tool == Tool("function", Some("get_weather"))

ToolVariants == {retrieval_tool, code_interpreter_tool, function_tool}

\* The result of astradb.get_assistant when there is no row: Python's None
NoAssistant == [none |-> TRUE]

\* No row under an id
NoRow == [absent |-> TRUE]

\* The exception a failed decoding of a stored tool entry raises
DecodeError == [error |-> "decode"]

----------------------------------------------------------------------------
(* Requests: CreateAssistantRequest and ModifyAssistantRequest have the    *)
(* same fields, each Optional.                                             *)

Request(name, description, model, instructions, tools, file_ids, metadata) ==
    [name |-> name, description |-> description, model |-> model,
     instructions |-> instructions, tools |-> tools, file_ids |-> file_ids,
     metadata |-> metadata]

\* only the model given: every optional field omitted
ReqBare == Request(None, None, Some("gpt-4"), None, None, None, None)

\* every field given, files with the retrieval tool
ReqFull == Request(Some("helper"), Some("answers questions"), Some("gpt-4"),
                   Some("be brief"), Some(<<retrieval_tool>>), Some(<<"f1">>),
                   Some({<<"team", "a">>}))

\* every field given and different from ReqFull, files without a retrieval tool
ReqNoRetrieval == Request(Some("coder"), Some("writes code"), Some("gpt-3.5"),
                          Some("be exact"),
                          Some(<<code_interpreter_tool, function_tool>>),
                          Some(<<"f2">>), Some({<<"team", "b">>}))

\* files given, tools omitted
ReqFilesOnly == Request(None, None, Some("gpt-4"), None, None, Some(<<"f1">>),
                        None)

\* files given with an empty tools list
ReqFilesEmptyTools == Request(Some("helper"), None, Some("gpt-4"), None,
                              Some(<<>>), Some(<<"f1">>), Some({}))

\* The requests sent to create_assistant
CreateRequests ==
    {ReqBare, ReqFull, ReqNoRetrieval, ReqFilesOnly, ReqFilesEmptyTools}

\* The requests sent to modify_assistant
ModifyRequests == {ReqBare, ReqFull, ReqNoRetrieval}

----------------------------------------------------------------------------
(* Field defaulting and validation of the handlers *)

\* x if it is given, else d:  "if x is None: x = d"
OrDefault(x, d) == IF x = None THEN Some(d) ELSE x

\* "t in tools" for a Python list
InList(t, tools) == \E i \in 1..Len(tools) : tools[i] = t

\* CouplingViolated changed to skip the test when the tools list is empty
CouplingViolatedUnlessNoTools(tools, file_ids) ==
    /\ file_ids # None
    /\ tools # Some(<<>>)
    /\ ~InList(retrieval_tool, tools[1])
    /\ file_ids # Some(<<>>)

\* The test of create_assistant that raises the 400
CouplingViolated(tools, file_ids) ==
    /\ file_ids # None
    /\ ~InList(retrieval_tool, tools[1])
    /\ file_ids # Some(<<>>)

----------------------------------------------------------------------------
(* The store adapter (astradb): table "assistants", keyed by id *)

\* One tool serialised for its column entry
ToJson(t) ==
    IF t.function = None
    THEN "{type:" \o t.type \o "}"
    ELSE "{type:" \o t.type \o ",function:" \o t.function[1] \o "}"

\* AssistantObjectToolsInner.parse_raw(json_string)
parse_raw(json_string) ==
    IF \E t \in ToolVariants : ToJson(t) = json_string
    THEN CHOOSE t \in ToolVariants : ToJson(t) = json_string
    ELSE DecodeError

\* The row upsert_assistant writes from its keyword arguments
Row(id, created_at, name, description, model, instructions, tools, file_ids, metadata, object) ==
    [id |-> id, created_at |-> created_at, name |-> name,
     description |-> description, model |-> model,
     instructions |-> instructions,
     tools |-> Some([i \in 1..Len(tools[1]) |-> ToJson(tools[1][i])]),
     file_ids |-> file_ids, metadata |-> metadata, object |-> object]

\* AssistantObject(...)
AssistantObject(id, created_at, name, description, model, instructions, tools, file_ids, metadata) ==
    [id |-> id, object |-> "assistant", created_at |-> created_at,
     name |-> name, description |-> description, model |-> model,
     instructions |-> instructions, tools |-> tools, file_ids |-> file_ids,
     metadata |-> metadata]

\* The body of the loop of list_assistants: one raw row to its AssistantObject
AssistantFromRow(assistant) ==
    LET created_at == assistant.created_at * 1000
        metadata   == OrDefault(assistant.metadata, {})
        file_ids   == OrDefault(assistant.file_ids, <<>>)
        toolsJson  == assistant.tools
        tools      == IF toolsJson # None
                      THEN [i \in 1..Len(toolsJson[1]) |->
                                parse_raw(toolsJson[1][i])]
                      ELSE <<>>
    IN  IF \E i \in 1..Len(tools) : tools[i] = DecodeError
        THEN DecodeError
        ELSE AssistantObject(assistant.id, created_at, assistant.name,
                             assistant.description, assistant.model,
                             assistant.instructions, Some(tools), file_ids,
                             metadata)

\* astradb.get_assistant(id): the row that reads see, as an object, or None
astradb_get_assistant(id) ==
    IF store[id] = NoRow THEN NoAssistant ELSE AssistantFromRow(store[id])

\* astradb.upsert_assistant(...): the row replaces the one under its id, at
\* once or (lagged) only after the store has propagated it
astradb_upsert_assistant(row, lagged) ==
    /\ store' = IF lagged THEN store ELSE [store EXCEPT ![row.id] = row]
    /\ inflight' = [inflight EXCEPT ![row.id] = IF lagged THEN row ELSE NoRow]

\* astradb.delete_assistant(id): the row under id is gone, present or not
astradb_delete_assistant(id) ==
    /\ store' = [store EXCEPT ![id] = NoRow]
    /\ inflight' = [inflight EXCEPT ![id] = NoRow]

\* The orders in which a scan can return the rows that reads see
Scans ==
    LET present == {id \in Ids : store[id] # NoRow}
        n == Cardinality(present)
    IN  {[i \in 1..n |-> store[order[i]]] :
            order \in {o \in [1..n -> present] :
                          \A i, j \in 1..n : i # j => o[i] # o[j]}}

----------------------------------------------------------------------------
(* What a handler hands back to the framework *)

\* history of a handler's run: how many store reads and store writes it
\* made, and whether a read of it found no row while one was in flight
Calls(reads, writes, missed) ==
    [reads |-> reads, writes |-> writes, missed |-> missed]

\* history of a run of list_assistants: its one read, and the ids of the
\* rows its scan returned, in the order of the scan
ScanCalls(raw_assistants) ==
    [reads |-> 1, writes |-> 0, missed |-> FALSE,
     scanned |-> [i \in 1..Len(raw_assistants) |-> raw_assistants[i].id]]

\* A value returned by handler op called with args
Returned(op, args, body, calls) ==
    [op |-> op, args |-> args, raised |-> FALSE, status |-> 200,
     body |-> body, calls |-> calls]

\* raise HTTPException(status_code, detail)
Raised(op, args, status_code, detail, calls) ==
    [op |-> op, args |-> args, raised |-> TRUE, status |-> status_code,
     body |-> [detail |-> detail], calls |-> calls]

\* The arguments of a handler: its assistant_id, its request, or both
ById(assistant_id) == [assistant_id |-> assistant_id]

ByRequest(req) == [request |-> req]

ByIdRequest(assistant_id, req) ==
    [assistant_id |-> assistant_id, request |-> req]

NoResponse ==
    Returned("none", [none |-> TRUE], [none |-> TRUE], Calls(0, 0, FALSE))

\* history: the last write of an id: the handler, its caller, and what it
\* wrote over
Wrote(op, by, over) == [op |-> op, by |-> by, over |-> over]

NoLocal == [id |-> "", req |-> ReqBare, assistant |-> NoAssistant]

\* history: what a write of id writes over: a row that reads see, the
\* absence a delete left, or nothing
Under(id) ==
    IF store[id] # NoRow THEN "row"
    ELSE IF lastWrite[id].op = "delete" THEN "deleted"
    ELSE "nothing"

----------------------------------------------------------------------------
Init ==
    /\ store = [id \in Ids |-> NoRow]
    /\ inflight = [id \in Ids |-> NoRow]
    /\ uuids = 0
    /\ pc = [c \in Callers |-> "idle"]
    /\ local = [c \in Callers |-> NoLocal]
    /\ response = NoResponse
    /\ lastWrite = [id \in Ids |-> Wrote("none", "", "nothing")]

\* The store makes a lagging row visible
Propagate(id) ==
    /\ inflight[id] # NoRow
    /\ store' = [store EXCEPT ![id] = inflight[id]]
    /\ inflight' = [inflight EXCEPT ![id] = NoRow]
    /\ UNCHANGED <<uuids, pc, local, response, lastWrite>>

\* A tool entry that AssistantObjectToolsInner.parse_raw does not decode
UndecodableJson == "{type:unknown}"

\* Another writer of table "assistants" leaves under id a row one of whose
\* tool entries does not decode
StoreUndecodable(id) ==
    /\ store[id] # NoRow
    /\ ~InList(UndecodableJson, store[id].tools[1])
    /\ store' = [store EXCEPT
                    ![id].tools = Some(Append(@[1], UndecodableJson))]
    /\ lastWrite' = [lastWrite EXCEPT ![id] = Wrote("foreign", "", "row")]
    /\ UNCHANGED <<inflight, uuids, pc, local, response>>

(* create_assistant *)

\* CreateRow changed to persist no tools
CreateRowWithoutTools(assistant_id, created_at, req) ==
    Row(assistant_id, created_at, req.name, OrDefault(req.description, ""),
        req.model, req.instructions, Some(<<>>),
        OrDefault(req.file_ids, <<>>), OrDefault(req.metadata, {}),
        "assistant")

\* The row create_assistant upserts
CreateRow(assistant_id, created_at, req) ==
    Row(assistant_id, created_at, req.name, OrDefault(req.description, ""),
        req.model, req.instructions, OrDefault(req.tools, <<>>),
        OrDefault(req.file_ids, <<>>), OrDefault(req.metadata, {}),
        "assistant")

\* The AssistantObject create_assistant returns
CreateResult(assistant_id, created_at, req) ==
    AssistantObject(assistant_id, created_at, OrDefault(req.name, ""),
                    OrDefault(req.description, ""), req.model,
                    req.instructions, OrDefault(req.tools, <<>>),
                    OrDefault(req.file_ids, <<>>), OrDefault(req.metadata, {}))

create_assistant(c, req, now, lagged) ==
    LET assistant_id == Uuid(uuids + 1)
        file_ids     == OrDefault(req.file_ids, <<>>)
        tools        == OrDefault(req.tools, <<>>)
    IN  /\ pc[c] = "idle"
        /\ uuids < MaxAssistants
        /\ uuids' = uuids + 1
        /\ IF CouplingViolated(tools, file_ids)
           THEN /\ response' = Raised("create", ByRequest(req), 400,
                        "Retrieval tool is required when file_ids is not [].",
                        Calls(0, 0, FALSE))
                /\ UNCHANGED <<store, inflight, lastWrite>>
           ELSE /\ astradb_upsert_assistant(
                        CreateRow(assistant_id, now, req), lagged)
                /\ lastWrite' = [lastWrite EXCEPT
                                    ![assistant_id] = Wrote("create", c,
                                        Under(assistant_id))]
                /\ response' = Returned("create", ByRequest(req),
                        CreateResult(assistant_id, now, req),
                        Calls(0, 1, FALSE))
        /\ UNCHANGED <<pc, local>>

(* modify_assistant: the first read, the upsert, the second read *)

\* The object a call of an async function evaluates to when it is not awaited:
\* "return modify_assistant(...)" runs nothing of the handler again
Coroutine == [coroutine |-> "modify_assistant"]

\* ModifyRow changed to patch: a field the request omits keeps its stored value
ModifyRowPatch(assistant_id, created_at, req) ==
    LET old == store[assistant_id]
        new == Row(assistant_id, created_at, req.name,
                   OrDefault(req.description, ""), req.model,
                   req.instructions, OrDefault(req.tools, <<>>),
                   OrDefault(req.file_ids, <<>>), OrDefault(req.metadata, {}),
                   "assistant")
    IN  IF old = NoRow THEN new
        ELSE [new EXCEPT
                 !.tools = IF req.tools = None THEN old.tools ELSE @,
                 !.file_ids = IF req.file_ids = None THEN old.file_ids ELSE @,
                 !.metadata = IF req.metadata = None THEN old.metadata ELSE @]

\* ModifyRow changed to merge: name, description, model and instructions
\* that the request omits keep their stored values
ModifyRowMerge(assistant_id, created_at, req) ==
    LET old == store[assistant_id]
        keep(new, stored) == IF new = None /\ old # NoRow THEN stored ELSE new
    IN  Row(assistant_id, created_at, keep(req.name, old.name),
            keep(req.description, old.description),
            keep(req.model, old.model),
            keep(req.instructions, old.instructions),
            OrDefault(req.tools, <<>>), OrDefault(req.file_ids, <<>>),
            OrDefault(req.metadata, {}), "assistant")

\* The row modify_assistant upserts
ModifyRow(assistant_id, created_at, req) ==
    Row(assistant_id, created_at, req.name, OrDefault(req.description, ""),
        req.model, req.instructions, OrDefault(req.tools, <<>>),
        OrDefault(req.file_ids, <<>>), OrDefault(req.metadata, {}),
        "assistant")

\* What modify_assistant returns when its first read finds no assistant
ModifyAbsent(assistant_id, req) ==
    Returned("modify", ByIdRequest(assistant_id, req), Coroutine,
             Calls(1, 0, inflight[assistant_id] # NoRow))

\* ModifyResult changed to echo the input the way create_assistant does
ModifyResultEcho(assistant_id, req, assistant) ==
    Returned("modify", ByIdRequest(assistant_id, req),
             AssistantObject(assistant_id, 0, OrDefault(req.name, ""),
                             OrDefault(req.description, ""), req.model,
                             req.instructions, OrDefault(req.tools, <<>>),
                             OrDefault(req.file_ids, <<>>),
                             OrDefault(req.metadata, {})),
             Calls(1, 1, FALSE))

\* What modify_assistant returns after its upsert: the second read's result,
\* None included; a read that fails to decode raises
ModifyResult(assistant_id, req, assistant) ==
    IF assistant = DecodeError
    THEN Raised("modify", ByIdRequest(assistant_id, req), 500, "decode",
                Calls(2, 1, FALSE))
    ELSE Returned("modify", ByIdRequest(assistant_id, req), assistant,
                  Calls(2, 1, FALSE))

\* modify_read changed to run the validation of create_assistant first
modify_read_validating(c, assistant_id, req) ==
    LET assistant == astradb_get_assistant(assistant_id)
    IN  /\ pc[c] = "idle"
        /\ IF CouplingViolated(OrDefault(req.tools, <<>>),
                               OrDefault(req.file_ids, <<>>))
           THEN /\ response' = Raised("modify",
                        ByIdRequest(assistant_id, req), 400,
                        "Retrieval tool is required when file_ids is not [].",
                        Calls(0, 0, FALSE))
                /\ UNCHANGED <<pc, local>>
           ELSE IF assistant = NoAssistant
           THEN /\ response' = ModifyAbsent(assistant_id, req)
                /\ UNCHANGED <<pc, local>>
           ELSE /\ pc' = [pc EXCEPT ![c] = "upsert"]
                /\ local' = [local EXCEPT ![c] =
                        [id |-> assistant_id, req |-> req,
                         assistant |-> assistant]]
                /\ UNCHANGED response
        /\ UNCHANGED <<store, inflight, uuids, lastWrite>>

modify_read(c, assistant_id, req) ==
    LET assistant == astradb_get_assistant(assistant_id)
    IN  /\ pc[c] = "idle"
        /\ IF assistant = NoAssistant
           THEN /\ response' = ModifyAbsent(assistant_id, req)
                /\ UNCHANGED <<pc, local>>
           ELSE IF assistant = DecodeError
           THEN /\ response' = Raised("modify",
                        ByIdRequest(assistant_id, req), 500, "decode",
                        Calls(1, 0, FALSE))
                /\ UNCHANGED <<pc, local>>
           ELSE /\ pc' = [pc EXCEPT ![c] = "upsert"]
                /\ local' = [local EXCEPT ![c] =
                        [id |-> assistant_id, req |-> req,
                         assistant |-> assistant]]
                /\ UNCHANGED response
        /\ UNCHANGED <<store, inflight, uuids, lastWrite>>

modify_upsert(c, now, lagged) ==
    /\ pc[c] = "upsert"
    /\ astradb_upsert_assistant(ModifyRow(local[c].id, now, local[c].req),
                                lagged)
    /\ lastWrite' = [lastWrite EXCEPT ![local[c].id] =
                        Wrote("modify", c, Under(local[c].id))]
    /\ pc' = [pc EXCEPT ![c] = "reread"]
    /\ UNCHANGED <<uuids, local, response>>

modify_return(c) ==
    /\ pc[c] = "reread"
    /\ response' = ModifyResult(local[c].id, local[c].req,
                                astradb_get_assistant(local[c].id))
    /\ pc' = [pc EXCEPT ![c] = "idle"]
    /\ local' = [local EXCEPT ![c] = NoLocal]
    /\ UNCHANGED <<store, inflight, uuids, lastWrite>>

(* delete_assistant *)

\* delete_assistant changed to look the id up first and to raise the 404 of
\* get_assistant when there is no row
delete_assistant_if_present(c, assistant_id) ==
    /\ pc[c] = "idle"
    /\ IF astradb_get_assistant(assistant_id) = NoAssistant
       THEN /\ response' = Raised("delete", ById(assistant_id), 404,
                               "Assistant not found.", Calls(1, 0, FALSE))
            /\ UNCHANGED <<store, inflight, lastWrite>>
       ELSE /\ astradb_delete_assistant(assistant_id)
            /\ lastWrite' = [lastWrite EXCEPT ![assistant_id] =
                                Wrote("delete", c, "row")]
            /\ response' = Returned("delete", ById(assistant_id),
                    [id |-> assistant_id, deleted |-> TRUE,
                     object |-> "assistant"], Calls(1, 1, FALSE))
    /\ UNCHANGED <<uuids, pc, local>>

\* DeleteAssistantResponse(id, deleted, object)
DeleteResult(assistant_id) ==
    [id |-> assistant_id, deleted |-> TRUE, object |-> "assistant"]

delete_assistant(c, assistant_id) ==
    /\ pc[c] = "idle"
    /\ astradb_delete_assistant(assistant_id)
    /\ lastWrite' = [lastWrite EXCEPT ![assistant_id] =
                        Wrote("delete", c, Under(assistant_id))]
    /\ response' = Returned("delete", ById(assistant_id),
                            DeleteResult(assistant_id), Calls(0, 1, FALSE))
    /\ UNCHANGED <<uuids, pc, local>>

(* get_assistant *)

\* GetResult changed to return what the read gave, None included
GetResultUnchecked(assistant_id, assistant) ==
    Returned("get", ById(assistant_id), assistant, Calls(1, 0, FALSE))

\* What get_assistant hands back for the result of its read
GetResult(assistant_id, assistant) ==
    IF assistant = NoAssistant
    THEN Raised("get", ById(assistant_id), 404, "Assistant not found.",
                Calls(1, 0, FALSE))
    ELSE IF assistant = DecodeError
    THEN Raised("get", ById(assistant_id), 500, "decode", Calls(1, 0, FALSE))
    ELSE Returned("get", ById(assistant_id), assistant, Calls(1, 0, FALSE))

\* get_assistant changed to drop a row that fails to decode
get_assistant_evicting(c, assistant_id) ==
    LET assistant == astradb_get_assistant(assistant_id)
    IN  /\ pc[c] = "idle"
        /\ response' = GetResult(assistant_id, assistant)
        /\ IF assistant = DecodeError
           THEN /\ astradb_delete_assistant(assistant_id)
                /\ lastWrite' = [lastWrite EXCEPT ![assistant_id] =
                                    Wrote("delete", c, "row")]
           ELSE UNCHANGED <<store, inflight, lastWrite>>
        /\ UNCHANGED <<uuids, pc, local>>

get_assistant(c, assistant_id) ==
    /\ pc[c] = "idle"
    /\ response' = GetResult(assistant_id, astradb_get_assistant(assistant_id))
    /\ UNCHANGED <<store, inflight, uuids, pc, local, lastWrite>>

(* list_assistants *)

\* The query parameters of list_assistants
ListQuery(limit, order, after, before) ==
    [limit |-> limit, order |-> order, after |-> after, before |-> before]

\* The queries sent: the defaults, and each parameter at another value
ListQueries ==
    {ListQuery(20, "desc", None, None), ListQuery(1, "asc", None, None),
     ListQuery(1, "desc", Some(Uuid(1)), None),
     ListQuery(20, "asc", None, Some(Uuid(1)))}

\* ListAssistantsResponse(data, object, first_id, last_id, has_more)
ListAssistantsResponse(data, object, first_id, last_id, has_more) ==
    [data |-> data, object |-> object, first_id |-> first_id,
     last_id |-> last_id, has_more |-> has_more]

\* ListResult without the early return for an empty scan: raw_assistants[0]
\* is then an IndexError
ListResultNoEmptyCase(query, raw_assistants) ==
    IF Len(raw_assistants) = 0
    THEN Raised("list", query, 500, "list index out of range",
                ScanCalls(raw_assistants))
    ELSE Returned("list", query,
             ListAssistantsResponse(
                 [i \in 1..Len(raw_assistants) |->
                     AssistantFromRow(raw_assistants[i])],
                 "assistants", raw_assistants[1].id,
                 raw_assistants[Len(raw_assistants)].id, FALSE),
             ScanCalls(raw_assistants))

\* ListResult changed to honour limit: at most limit rows are mapped
ListResultLimited(query, raw_assistants) ==
    LET n == IF Len(raw_assistants) < query.limit
             THEN Len(raw_assistants) ELSE query.limit
    IN  IF Len(raw_assistants) = 0
        THEN Returned("list", query,
                 ListAssistantsResponse(<<>>, "assistant", "none", "none",
                                        FALSE), ScanCalls(raw_assistants))
        ELSE Returned("list", query,
                 ListAssistantsResponse(
                     [i \in 1..n |-> AssistantFromRow(raw_assistants[i])],
                     "assistants", raw_assistants[1].id,
                     raw_assistants[n].id, Len(raw_assistants) > n),
                 ScanCalls(raw_assistants))

\* ListResult changed to skip the rows that fail to decode
ListResultSkipping(query, raw_assistants) ==
    LET decoded == SelectSeq([i \in 1..Len(raw_assistants) |->
                                 AssistantFromRow(raw_assistants[i])],
                             LAMBDA a : a # DecodeError)
    IN  IF Len(raw_assistants) = 0
        THEN Returned("list", query,
                 ListAssistantsResponse(<<>>, "assistant", "none", "none",
                                        FALSE), ScanCalls(raw_assistants))
        ELSE Returned("list", query,
                 ListAssistantsResponse(decoded, "assistants",
                     raw_assistants[1].id,
                     raw_assistants[Len(raw_assistants)].id, FALSE),
                 ScanCalls(raw_assistants))

\* What list_assistants hands back for the rows raw_assistants of its scan
ListResult(query, raw_assistants) ==
    LET assistants == [i \in 1..Len(raw_assistants) |->
                          AssistantFromRow(raw_assistants[i])]
    IN  IF Len(raw_assistants) = 0
        THEN Returned("list", query,
                 ListAssistantsResponse(<<>>, "assistant", "none", "none",
                                        FALSE), ScanCalls(raw_assistants))
        ELSE IF \E i \in 1..Len(assistants) : assistants[i] = DecodeError
        THEN Raised("list", query, 500, "decode", ScanCalls(raw_assistants))
        ELSE Returned("list", query,
                 ListAssistantsResponse(assistants, "assistants",
                     raw_assistants[1].id,
                     raw_assistants[Len(raw_assistants)].id, FALSE),
                 ScanCalls(raw_assistants))

list_assistants(c, query, raw_assistants) ==
    /\ pc[c] = "idle"
    /\ raw_assistants \in Scans
    /\ response' = ListResult(query, raw_assistants)
    /\ UNCHANGED <<store, inflight, uuids, pc, local, lastWrite>>

\* One step of a handler: callers C send the create requests CR and the
\* modify requests MR, and a write lags or not as L allows
Handle(C, CR, MR, L) ==
    \/ \E c \in C, req \in CR, now \in Times, lagged \in L :
          create_assistant(c, req, now, lagged)
    \/ \E c \in C, id \in Ids, req \in MR : modify_read(c, id, req)
    \/ \E c \in C, now \in Times, lagged \in L : modify_upsert(c, now, lagged)
    \/ \E c \in C : modify_return(c)
    \/ \E c \in C, id \in Ids : delete_assistant(c, id)
    \/ \E c \in C, id \in Ids : get_assistant(c, id)
    \/ \E c \in C, query \in ListQueries, raw \in Scans :
          list_assistants(c, query, raw)

\* One caller, one request at a time, on a store without lag
Next == Handle({"c1"}, CreateRequests, ModifyRequests, {FALSE})

Spec == Init /\ [][Next]_vars

\* One caller, one request at a time, on a store whose writes may lag
NextLag ==
    \/ \E id \in Ids : Propagate(id)
    \/ Handle({"c1"}, CreateRequests, ModifyRequests, BOOLEAN)

SpecLag == Init /\ [][NextLag]_vars

\* Two callers whose writing requests (create, modify, delete) interleave at
\* the store, without lag
NextConcurrent ==
    \/ \E now \in Times : create_assistant("c1", ReqFull, now, FALSE)
    \/ \E id \in Ids : modify_read("c1", id, ReqBare)
    \/ \E id \in Ids : modify_read("c2", id, ReqNoRetrieval)
    \/ \E c \in Callers, now \in Times : modify_upsert(c, now, FALSE)
    \/ \E c \in Callers : modify_return(c)
    \/ \E c \in Callers, id \in Ids : delete_assistant(c, id)

SpecConcurrent == Init /\ [][NextConcurrent]_vars

\* One caller, on a table that another writer leaves undecodable rows in
NextUndecodable ==
    \/ \E id \in Ids : StoreUndecodable(id)
    \/ Handle({"c1"}, {ReqFull, ReqFilesOnly}, {ReqNoRetrieval}, {FALSE})

SpecUndecodable == Init /\ [][NextUndecodable]_vars

----------------------------------------------------------------------------
(* Properties of the handlers *)

\* C1: a modify_assistant whose read finds no assistant, the id never being
\* visible in the store, makes exactly 3 read attempts (the retry budget), no
\* write, and then fails with NotFound (404).
C1_AbsentModifyBoundedNotFound ==
    (response.op = "modify" /\ response.calls.writes = 0)
        => /\ response.raised
           /\ response.status = 404
           /\ response.calls.reads = 3

\* A request that names files and no tool of type retrieval
FilesWithoutRetrieval(req) ==
    /\ req.file_ids # None
    /\ Len(req.file_ids[1]) > 0
    /\ \/ req.tools = None
       \/ \A i \in 1..Len(req.tools[1]) : req.tools[1][i].type # "retrieval"

\* C2: create_assistant with non-empty file_ids and no retrieval entry in
\* tools (tools absent included) raises the 400 and writes nothing: the store
\* after the call is the store before it.
C2_CreateRejectsFilesWithoutRetrieval ==
    [][\A c \in Callers, req \in CreateRequests, now \in Times,
          lagged \in BOOLEAN :
          (create_assistant(c, req, now, lagged) /\ FilesWithoutRetrieval(req))
              => /\ response'.op = "create"
                 /\ response'.raised
                 /\ response'.status = 400
                 /\ response'.calls.writes = 0
                 /\ store' = store
                 /\ inflight' = inflight
                 /\ lastWrite' = lastWrite]_vars

\* C2 happens: a create with files and an empty tools list was rejected while
\* the store held a row
C2_Witness ==
    /\ response.op = "create"
    /\ response.raised
    /\ response.status = 400
    /\ response.args.request = ReqFilesEmptyTools
    /\ \E id \in Ids : store[id] # NoRow

\* The fields of an AssistantObject that a request sets
SameFields(a, b) ==
    /\ a.name = b.name
    /\ a.description = b.description
    /\ a.model = b.model
    /\ a.instructions = b.instructions
    /\ a.tools = b.tools
    /\ a.file_ids = b.file_ids
    /\ a.metadata = b.metadata

\* C3: after a successful create_assistant, with no later write of its id,
\* get_assistant on the returned id succeeds with a record equal to the one
\* create returned on name, description, model, instructions, tools, file_ids
\* and metadata, optional fields omitted included.
C3_CreateThenGetRoundTrip ==
    \A id \in Ids :
        (/\ response.op = "create"
         /\ ~response.raised
         /\ response.body.id = id
         /\ lastWrite[id].op = "create"
         /\ inflight[id] = NoRow)
            => LET got == GetResult(id, astradb_get_assistant(id))
               IN  /\ ~got.raised
                   /\ got.body.id = id
                   /\ SameFields(got.body, response.body)

\* C4: delete_assistant makes no existence check and returns {id, deleted:
\* true} whether or not the id exists; the row of the id is gone afterwards,
\* and a delete of an id that reads see no row of (a second delete of the
\* id, say) returns the same and leaves the store as it was.
C4_DeleteIdempotent ==
    [][\A c \in Callers, id \in Ids :
          delete_assistant(c, id)
              => /\ ~response'.raised
                 /\ response'.body.id = id
                 /\ response'.body.deleted = TRUE
                 /\ response'.calls.reads = 0
                 /\ store'[id] = NoRow
                 /\ \A other \in Ids \ {id} : store'[other] = store[other]
                 /\ (store[id] = NoRow /\ inflight[id] = NoRow)
                        => (store' = store /\ inflight' = inflight)
                 /\ lastWrite[id].op = "delete"
                        => (store' = store /\ inflight' = inflight)]_vars

\* C4 happens: an id has been deleted a second time, with deleted: true,
\* while another row stays in the store
C4_Witness ==
    \E id \in Ids :
        /\ response.op = "delete"
        /\ response.args.assistant_id = id
        /\ ~response.raised
        /\ response.body.deleted = TRUE
        /\ lastWrite[id] = Wrote("delete", "c1", "deleted")
        /\ \E other \in Ids \ {id} : store[other] # NoRow

\* C5: get_assistant makes one read and raises NotFound (404) exactly when
\* the read finds no row; once delete_assistant has deleted an id, and no
\* create or modify has written it since, get_assistant of it raises NotFound.
C5_GetNotFoundIffAbsent ==
    [][\A c \in Callers, id \in Ids :
          get_assistant(c, id)
              => /\ response'.calls.reads = 1
                 /\ (response'.raised /\ response'.status = 404)
                        <=> store[id] = NoRow
                 /\ store[id] # NoRow
                        => (~response'.raised /\ response'.body.id = id)
                 /\ lastWrite[id].op = "delete"
                        => (response'.raised /\ response'.status = 404)]_vars

\* C5 happens: get_assistant raised NotFound for an id whose existing row a
\* delete_assistant had removed
C5_Witness ==
    /\ response.op = "get"
    /\ response.raised
    /\ response.status = 404
    /\ lastWrite[response.args.assistant_id] = Wrote("delete", "c1", "row")

\* The row that an upsert of id has just written, lagging or not
Written(id, lagged) == IF lagged THEN inflight'[id] ELSE store'[id]

\* C6: modify_assistant replaces, it does not patch: each of metadata,
\* file_ids and tools that the request omits is {}, [] and [] on the row the
\* modify stores, whatever the row of the id held before.
C6_ModifyReplaces ==
    [][\A c \in Callers, now \in Times, lagged \in BOOLEAN :
          modify_upsert(c, now, lagged)
              => LET req == local[c].req
                     row == Written(local[c].id, lagged)
                 IN  /\ req.metadata = None => row.metadata = Some({})
                     /\ req.file_ids = None => row.file_ids = Some(<<>>)
                     /\ req.tools = None => row.tools = Some(<<>>)]_vars

\* C6 happens: a modify that gives none of the three has written its row
\* over a row that held tools, file_ids and metadata
C6_Witness ==
    \E c \in Callers :
        /\ pc[c] = "reread"
        /\ local[c].req = ReqBare
        /\ local[c].assistant.tools # Some(<<>>)
        /\ local[c].assistant.file_ids # Some(<<>>)
        /\ local[c].assistant.metadata # Some({})
        /\ store[local[c].id] # NoRow
        /\ store[local[c].id].tools = Some(<<>>)
        /\ store[local[c].id].file_ids = Some(<<>>)
        /\ store[local[c].id].metadata = Some({})

\* C7: list_assistants on an empty store returns data = [], has_more = false
\* and first_id = last_id = "none" for every limit, order, after and before,
\* and leaves the store as it was.
C7_ListEmptyStore ==
    [][(/\ response' # response
        /\ response'.op = "list"
        /\ \A id \in Ids : store[id] = NoRow)
          => \A c \in Callers, query \in ListQueries, raw \in Scans :
                list_assistants(c, query, raw)
                    => /\ ~response'.raised
                       /\ response'.args = query
                       /\ response'.body.data = <<>>
                       /\ response'.body.has_more = FALSE
                       /\ response'.body.first_id = "none"
                       /\ response'.body.last_id = "none"
                       /\ store' = store
                       /\ inflight' = inflight]_vars

\* C7 happens: a store that deletes have emptied was listed with limit = 1,
\* order = asc
C7_Witness ==
    /\ response.op = "list"
    /\ response.args = ListQuery(1, "asc", None, None)
    /\ ~response.raised
    /\ response.body.data = <<>>
    /\ response.body.first_id = "none"
    /\ \A id \in Ids : store[id] = NoRow
    /\ \E id \in Ids : lastWrite[id] = Wrote("delete", "c1", "row")

HoldsRequest(assistant, id, req) ==
    /\ assistant.id = id
    /\ assistant.name = req.name
    /\ assistant.description = OrDefault(req.description, "")
    /\ assistant.model = req.model
    /\ assistant.instructions = req.instructions
    /\ assistant.tools = OrDefault(req.tools, <<>>)
    /\ assistant.file_ids = OrDefault(req.file_ids, <<>>)
    /\ assistant.metadata = OrDefault(req.metadata, {})

\* C9: a modify_assistant that finds the record writes the request's fields
\* under the id it was called with and no other row; with its write visible
\* (no lag) and no later write of the id by anyone else, what it returns is
\* not None and is the record read back from the store, which holds the
\* request's fields.
C9_ModifyReturnsReadBack ==
    [][\A c \in Callers :
          /\ \A now \in Times, lagged \in BOOLEAN :
                modify_upsert(c, now, lagged)
                    => LET row == Written(local[c].id, lagged)
                       IN  /\ row # NoRow
                           /\ HoldsRequest(AssistantFromRow(row), local[c].id,
                                           local[c].req)
                           /\ row.created_at = now
                           /\ \A other \in Ids \ {local[c].id} :
                                  /\ store'[other] = store[other]
                                  /\ inflight'[other] = inflight[other]
          /\ (/\ modify_return(c)
              /\ inflight[local[c].id] = NoRow
              /\ lastWrite[local[c].id].op = "modify"
              /\ lastWrite[local[c].id].by = c)
                 => /\ ~response'.raised
                    /\ response'.calls.writes = 1
                    /\ response'.body # NoAssistant
                    /\ response'.body = AssistantFromRow(store[local[c].id])
                    /\ HoldsRequest(response'.body, local[c].id,
                                    local[c].req)]_vars

\* C9 happens: a modify without a retrieval tool has returned the record it
\* wrote over a created row
C9_Witness ==
    \E id \in Ids :
        /\ response.op = "modify"
        /\ response.calls.writes = 1
        /\ response.args = ByIdRequest(id, ReqNoRetrieval)
        /\ response.body # NoAssistant
        /\ response.body.name = Some("coder")
        /\ lastWrite[id] = Wrote("modify", "c1", "row")
        /\ store[id] # NoRow
        /\ store[id].name = Some("coder")

\* C10: a modify_assistant whose first read missed a row still in flight
\* (propagation lag) goes on to retry, so once the row is visible the
\* operation has upserted and returned the record it wrote, not NotFound.
C10_LaggingModifyReturnsRecord ==
    \A id \in Ids :
        (/\ response.op = "modify"
         /\ response.args.assistant_id = id
         /\ response.calls.missed
         /\ store[id] # NoRow)
            => /\ ~response.raised
               /\ response.calls.writes = 1
               /\ response.body # Coroutine
               /\ response.body # NoAssistant
               /\ response.body.id = id

\* Invariant I1 on a stored row: non-empty file_ids come with a tool entry
\* that decodes to the retrieval variant
HoldsI1(row) ==
    (row.file_ids # None /\ Len(row.file_ids[1]) > 0)
        => \E i \in 1..Len(row.tools[1]) :
              /\ parse_raw(row.tools[1][i]) # DecodeError
              /\ parse_raw(row.tools[1][i]).type = "retrieval"

\* C11: every stored record that create_assistant wrote (no modify_assistant
\* has written its id since) satisfies Invariant I1: with non-empty file_ids
\* its tools hold at least one retrieval entry.
C11_CreatedRecordsHoldI1 ==
    \A id \in Ids :
        (store[id] # NoRow /\ lastWrite[id].op = "create")
            => HoldsI1(store[id])

\* C11 happens: a created row with files is in the store, and a create with
\* files and no tools has just been rejected
C11_Witness ==
    /\ response.op = "create"
    /\ response.raised
    /\ response.args.request = ReqFilesOnly
    /\ \E id \in Ids :
          /\ store[id] # NoRow
          /\ lastWrite[id].op = "create"
          /\ store[id].file_ids = Some(<<"f1">>)

\* Every row but the one under id is what it was
OthersUnchanged(id) ==
    \A other \in Ids \ {id} :
        /\ store'[other] = store[other]
        /\ inflight'[other] = inflight[other]
        /\ lastWrite'[other] = lastWrite[other]

\* C12: create_assistant uses an id under which no record is or was, so it
\* overwrites nothing; modify_assistant writes only the row under the
\* assistant_id it was called with, carrying that id; create, modify and
\* delete leave every other row of the store unchanged.
C12_FreshIdOwnRow ==
    [][/\ \A c \in Callers, req \in CreateRequests, now \in Times,
            lagged \in BOOLEAN :
            (/\ uuids' = uuids + 1
             /\ response'.args = ByRequest(req)
             /\ create_assistant(c, req, now, lagged))
                => LET id == Uuid(uuids + 1)
                   IN  /\ store[id] = NoRow
                       /\ inflight[id] = NoRow
                       /\ lastWrite[id].op \notin {"create", "modify"}
                       /\ ~response'.raised
                              => /\ response'.body.id = id
                                 /\ Written(id, lagged) # NoRow
                                 /\ Written(id, lagged).id = id
                       /\ OthersUnchanged(id)
       /\ \A c \in Callers, id \in Ids, req \in ModifyRequests :
            (/\ pc[c] = "idle"
             /\ pc'[c] = "upsert" \/ response'.op = "modify"
             /\ modify_read(c, id, req))
                => /\ store' = store
                   /\ inflight' = inflight
                   /\ pc'[c] = "upsert" => local'[c].id = id
       /\ \A c \in Callers, now \in Times, lagged \in BOOLEAN :
            modify_upsert(c, now, lagged)
                => /\ Written(local[c].id, lagged) # NoRow
                   /\ Written(local[c].id, lagged).id = local[c].id
                   /\ OthersUnchanged(local[c].id)
       /\ \A c \in Callers :
            modify_return(c)
                => /\ store' = store
                   /\ inflight' = inflight
                   /\ response'.args.assistant_id = local[c].id
       /\ \A c \in Callers, id \in Ids :
            (/\ response'.args = ById(id)
             /\ delete_assistant(c, id)) => OthersUnchanged(id)]_vars

\* C12 happens: the second create has written its own row beside the row of
\* the first id, which a modify had rewritten and which is as the modify
\* left it
C12_Witness ==
    /\ response.op = "create"
    /\ ~response.raised
    /\ response.body.id = Uuid(2)
    /\ store[Uuid(2)] # NoRow
    /\ store[Uuid(2)].id = Uuid(2)
    /\ lastWrite[Uuid(2)] = Wrote("create", "c1", "nothing")
    /\ lastWrite[Uuid(1)] = Wrote("modify", "c1", "row")
    /\ store[Uuid(1)] # NoRow
    /\ store[Uuid(1)].id = Uuid(1)
    /\ store[Uuid(1)].name = Some("coder")

\* C13: modify_assistant does not re-check Invariant I1: a modify of an
\* existing id whose request names files and no retrieval tool is not
\* rejected, its upsert persists a row that violates I1, and it returns
\* that record.
C13_ModifySkipsI1 ==
    [][/\ \A c \in Callers, id \in Ids, req \in ModifyRequests :
            (/\ pc[c] = "idle"
             /\ FilesWithoutRetrieval(req)
             /\ store[id] # NoRow
             /\ pc'[c] = "upsert" \/ response'.op = "modify"
             /\ modify_read(c, id, req))
                => /\ response' = response
                   /\ pc'[c] = "upsert"
                   /\ local'[c].req = req
       /\ \A c \in Callers, now \in Times, lagged \in BOOLEAN :
            (modify_upsert(c, now, lagged)
                /\ FilesWithoutRetrieval(local[c].req))
                => LET row == Written(local[c].id, lagged)
                   IN  /\ row # NoRow
                       /\ row.file_ids = local[c].req.file_ids
                       /\ ~HoldsI1(row)
       /\ \A c \in Callers :
            (/\ modify_return(c)
             /\ FilesWithoutRetrieval(local[c].req)
             /\ lastWrite[local[c].id] = Wrote("modify", c, "row")
             /\ inflight[local[c].id] = NoRow)
                => /\ ~response'.raised
                   /\ response'.status = 200
                   /\ response'.body.file_ids = local[c].req.file_ids
                   /\ ~HoldsI1(store'[local[c].id])]_vars

\* C13 happens: a modify with files and no retrieval tool has returned, and
\* the row it left under a created id violates I1
C13_Witness ==
    \E id \in Ids :
        /\ response.op = "modify"
        /\ ~response.raised
        /\ response.args = ByIdRequest(id, ReqNoRetrieval)
        /\ response.calls.writes = 1
        /\ lastWrite[id] = Wrote("modify", "c1", "row")
        /\ store[id] # NoRow
        /\ store[id].file_ids = Some(<<"f2">>)
        /\ ~HoldsI1(store[id])

\* C14: concurrent modifies of one id are last-writer-wins by whole rows:
\* in every state, a row whose last write was a modify holds name,
\* description, model, instructions, tools, file_ids and metadata of one
\* modify request, never a mixture, and while the caller whose upsert ran
\* last has not returned, that request is this caller's.
C14_LastWriterWins ==
    \A id \in Ids :
        (store[id] # NoRow /\ lastWrite[id].op = "modify")
            => /\ \E req \in ModifyRequests :
                     HoldsRequest(AssistantFromRow(store[id]), id, req)
               /\ \A c \in Callers :
                     (/\ pc[c] = "reread"
                      /\ local[c].id = id
                      /\ lastWrite[id].by = c)
                        => HoldsRequest(AssistantFromRow(store[id]), id,
                                        local[c].req)

\* C14 happens: two modifies of one id with different requests have both
\* upserted, c2 last, and the row is the one of c2's request
C14_Witness ==
    \E id \in Ids :
        /\ pc["c1"] = "reread"
        /\ pc["c2"] = "reread"
        /\ local["c1"].id = id
        /\ local["c2"].id = id
        /\ local["c1"].req = ReqBare
        /\ local["c2"].req = ReqNoRetrieval
        /\ lastWrite[id] = Wrote("modify", "c2", "row")
        /\ HoldsRequest(AssistantFromRow(store[id]), id, ReqNoRetrieval)

\* C16: modify_assistant never creates or resurrects a record: no upsert of
\* a modify lands on an id that reads see no row of, so an id that a
\* delete_assistant has removed stays without a record when a modify that
\* had read it before the delete writes after it.
C16_ModifyNeverResurrects ==
    \A id \in Ids :
        lastWrite[id].op = "modify"
            => lastWrite[id].over = "row"

\* C17: a modify_assistant that has made its upsert returns a record of its
\* id or raises NotFound (404), also when a delete_assistant of the id ran
\* between its upsert and its re-read; it never returns None.
C17_ModifyReturnsRecordOrNotFound ==
    (response.op = "modify" /\ response.calls.writes = 1)
        => \/ response.raised /\ response.status = 404
           \/ /\ ~response.raised
              /\ response.body # NoAssistant
              /\ response.body.id = response.args.assistant_id

\* A stored row one of whose tool entries does not decode
Undecodable(row) ==
    \E i \in 1..Len(row.tools[1]) : parse_raw(row.tools[1][i]) = DecodeError

\* C15: list_assistants gives no partial results: when a tool entry of any
\* scanned row fails to decode, the whole list raises an error and hands
\* back no data, whatever the other rows, and the store is unchanged; it
\* raises in no other case.
C15_ListNoPartialResults ==
    [][(response' # response /\ response'.op = "list")
          => \A raw \in Scans :
              (/\ response'.calls = ScanCalls(raw)
               /\ \E c \in Callers :
                     list_assistants(c, response'.args, raw))
              => /\ (\E i \in 1..Len(raw) : Undecodable(raw[i]))
                        => /\ response'.raised
                           /\ response'.status = 500
                           /\ "data" \notin DOMAIN response'.body
                 /\ response'.raised
                        => \E i \in 1..Len(raw) : Undecodable(raw[i])
                 /\ store' = store
                 /\ inflight' = inflight]_vars

\* C15 happens: a list over two rows, one that decodes and one that does
\* not, has raised
C15_Witness ==
    /\ response.op = "list"
    /\ response.raised
    /\ Len(response.calls.scanned) = 2
    /\ \E id, other \in Ids :
          /\ store[id] # NoRow
          /\ store[other] # NoRow
          /\ Undecodable(store[id])
          /\ ~Undecodable(store[other])

\* C18: get_assistant and list_assistants are read-only: whatever the store
\* holds and whatever their arguments, whether they return or raise, the
\* store after the call is the store before it.
C18_GetListReadOnly ==
    [][/\ \A c \in Callers, id \in Ids :
            (response'.args = ById(id) /\ get_assistant(c, id))
                => /\ store' = store
                   /\ inflight' = inflight
                   /\ lastWrite' = lastWrite
       /\ (response' # response /\ response'.op = "list")
            => \A raw \in Scans :
                  (/\ response'.calls = ScanCalls(raw)
                   /\ \E c \in Callers :
                         list_assistants(c, response'.args, raw))
                      => /\ store' = store
                         /\ inflight' = inflight
                         /\ lastWrite' = lastWrite]_vars

\* C18 happens: a get_assistant of a row that does not decode has raised,
\* and the row is still in the store
C18_Witness ==
    \E id \in Ids :
        /\ response.op = "get"
        /\ response.args = ById(id)
        /\ response.raised
        /\ response.status = 500
        /\ store[id] # NoRow
        /\ Undecodable(store[id])

====
